---- MODULE Spec2Model ----
(***************************************************************************)
(* Work-order lifecycle of DispatchLight (core/models.py, core/views.py): *)
(* order numbering in WorkOrder.save, the views that create, update and   *)
(* assign orders, the admin's deletions and the technician eligibility    *)
(* check.                                                                  *)
(*                                                                         *)
(* Requests run in worker processes.  Every database query is one atomic  *)
(* step; the Python code between two queries of one request belongs to    *)
(* the step of the query that follows it.                                  *)
(***************************************************************************)
EXTENDS Integers, Sequences, FiniteSets, TLC

(***************************************************************************)
(* Bounds of the model.                                                    *)
(***************************************************************************)
\* number of WorkOrder instances ever constructed (primary keys 1..MaxOrders)
MaxOrders == 3
\* number of calendar years that pass
MaxTime == 1
\* size of the largest order book drawn for the technician predicates
MaxLoad == 6
\* size of the largest order book drawn for the performance statistics
MaxBook == 3
\* largest number of orders in the aggregates given to the efficiency score
MaxTotal == 31
\* number of minutes that pass while positions are reported
MaxMinutes == 6

(***************************************************************************)
(* The tenants: users, the companies they own, the technicians.           *)
(***************************************************************************)
Procs == {"w1", "w2"}
Users == {"u1", "u2", "u3"}
Companies == {"c1", "c2"}
Techs == {"t1", "t2"}
NoCompany == "NoCompany"
NoTech == "NoTech"
NoTime == -1

\* Company.name, as a sequence of characters
CompanyName ==
    [c \in Companies |->
        IF c = "c1" THEN <<"A", "c", "m", "e">> ELSE <<"a", "c", "m">>]

\* Technician.company
TechCompany == [t \in Techs |-> IF t = "t1" THEN "c1" ELSE "c2"]

\* request.user.owned_companies.first(): u1 owns c1, u2 owns c2, u3 owns none
OwnedCompany(u) ==
    IF u = "u1" THEN "c1" ELSE IF u = "u2" THEN "c2" ELSE NoCompany

Statuses == {"PENDING", "ASSIGNED", "EN_ROUTE", "ON_SITE", "COMPLETED", "CANCELLED"}
ActiveStatuses == {"ASSIGNED", "EN_ROUTE", "ON_SITE"}
Priorities == {"NORMAL", "URGENT"}

\* The clock counts minutes from the start of 2024; a year is taken as 366
\* days.
MinutesPerYear == 366 * 24 * 60

\* timezone.now().year for a clock reading
YearOf(t) == 2024 + (t \div MinutesPerYear)

\* .date() of a clock reading, as a day number
DateOf(t) == t \div (24 * 60)

VARIABLES
    orders,      \* the WorkOrder table: primary key -> row
    techActive,  \* Technician.is_active
    now,         \* the clock, in minutes
    nextId,      \* the next fresh primary key (uuid4)
    pc,          \* per worker: "idle", "save" (in WorkOrder.save), "write", or
                 \* the statement a registration is at
    req,         \* per worker: the request being served
    inst,        \* per worker: the model instance held in memory
    local,       \* per worker: the locals year and count of WorkOrder.save
    response,    \* what the step just taken answered to its caller
    location,    \* per technician: the GPS position and the time it was reported
    registry     \* the users and companies persisted, and per worker the rows
                 \* of its open transaction

vars == <<orders, techActive, now, nextId, pc, req, inst, local, response,
          location, registry>>

(***************************************************************************)
(* Formatting of the order number.                                         *)
(***************************************************************************)
DigitChar == <<"0", "1", "2", "3", "4", "5", "6", "7", "8", "9">>

RECURSIVE Digits(_)
\* str(n) for n >= 0
Digits(n) ==
    IF n < 10 THEN <<DigitChar[n + 1]>>
    ELSE Digits(n \div 10) \o <<DigitChar[(n % 10) + 1]>>

RECURSIVE ZeroPad(_, _)
\* the format specification 0<w>d applied to the digits s
ZeroPad(s, w) == IF Len(s) >= w THEN s ELSE ZeroPad(<<"0">> \o s, w)

\* str.upper() on one character
UpperChar(ch) ==
    CASE ch = "a" -> "A"
      [] ch = "c" -> "C"
      [] ch = "m" -> "M"
      [] ch = "e" -> "E"
      [] OTHER -> ch

Upper(s) == [i \in 1..Len(s) |-> UpperChar(s[i])]

\* s[:n]
Prefix(s, n) == SubSeq(s, 1, IF Len(s) < n THEN Len(s) ELSE n)

\* f"{self.company.name[:3].upper()}{year}{count:04d}"
FormatOrderNumber(c, year, count) ==
    Upper(Prefix(CompanyName[c], 3)) \o Digits(year) \o ZeroPad(Digits(count), 4)

(***************************************************************************)
(* The WorkOrder model.                                                    *)
(***************************************************************************)
\* a WorkOrder whose status defaults to ASSIGNED
NewWorkOrderAssigned(id, prio) ==
    [id |-> id, company |-> NoCompany, order_number |-> <<>>,
     status |-> "ASSIGNED", technician |-> NoTech, priority |-> prio,
     created_at |-> NoTime, assigned_at |-> NoTime,
     started_at |-> NoTime, completed_at |-> NoTime]

\* a WorkOrder instance as the model form constructs it: field defaults
NewWorkOrder(id, prio) ==
    [id |-> id, company |-> NoCompany, order_number |-> <<>>,
     status |-> "PENDING", technician |-> NoTech, priority |-> prio,
     created_at |-> NoTime, assigned_at |-> NoTime,
     started_at |-> NoTime, completed_at |-> NoTime]

NoInst == NewWorkOrder(0, "NORMAL")
NoReq == [op |-> "none", user |-> "none", pk |-> 0, technician_id |-> NoTech]
NoLocal == [year |-> 0, count |-> 0]
NoResponse == [proc |-> "none", result |-> "none"]

\* Technician.can_accept_order's default for max_orders
DefaultMaxOrders == 5

\* the count over every order that is not finished, PENDING included
UnfinishedOrderCount(t) ==
    Cardinality({id \in DOMAIN orders :
        orders[id].technician = t
          /\ orders[id].status \notin {"COMPLETED", "CANCELLED"}})

\* self.work_orders.filter(status__in=['ASSIGNED', 'EN_ROUTE', 'ON_SITE']).count()
ActiveOrderCount(t) ==
    Cardinality({id \in DOMAIN orders :
        orders[id].technician = t /\ orders[id].status \in ActiveStatuses})

\* can_accept_order that admits a technician who is at the limit
CanAcceptOrderInclusive(t, max_orders) ==
    IF ~techActive[t] THEN FALSE ELSE ActiveOrderCount(t) <= max_orders

\* Technician.can_accept_order(max_orders)
CanAcceptOrder(t, max_orders) ==
    IF ~techActive[t] THEN FALSE ELSE ActiveOrderCount(t) < max_orders

\* save() that numbers the instance on every call
AlwaysNeedsNumber(i) == TRUE

\* `if not self.order_number`
NeedsNumber(i) == i.order_number = <<>>

\* the count without the created_at__year filter
CompanyCountAllYears(c, year) ==
    Cardinality({id \in DOMAIN orders : orders[id].company = c})

\* WorkOrder.objects.filter(company=c, created_at__year=year).count()
CompanyYearCount(c, year) ==
    Cardinality({id \in DOMAIN orders :
        orders[id].company = c /\ YearOf(orders[id].created_at) = year})

\* order_number declared without unique=True
NoUniqueConstraint(i) == FALSE

\* order_number declared unique together with company
UniquePerCompanyViolation(i) ==
    \E other \in DOMAIN orders :
        /\ other # i.id
        /\ orders[other].company = i.company
        /\ orders[other].order_number = i.order_number

\* the unique=True constraint on order_number, for instance i written as a row
UniqueViolation(i) ==
    \E other \in DOMAIN orders :
        other # i.id /\ orders[other].order_number = i.order_number

\* a technician who never reported a position
NoLocation ==
    [current_latitude |-> <<>>, current_longitude |-> <<>>,
     last_location_update |-> NoTime]

\* the rows a worker's open transaction has written and not committed
NoPending == [users |-> {}, companies |-> {}]

\* the users and the companies of the tenants; no registration is running
NoRegistrations ==
    [users |-> Users,
     companies |-> {[name |-> OwnedCompany(u), owner |-> u] :
                       u \in {x \in Users : OwnedCompany(x) # NoCompany}},
     pending |-> [p \in Procs |-> NoPending]]

Init ==
    /\ orders = <<>>
    /\ techActive = [t \in Techs |-> TRUE]
    /\ now = 0
    /\ nextId = 1
    /\ pc = [p \in Procs |-> "idle"]
    /\ req = [p \in Procs |-> NoReq]
    /\ inst = [p \in Procs |-> NoInst]
    /\ local = [p \in Procs |-> NoLocal]
    /\ response = NoResponse
    /\ location = [t \in Techs |-> NoLocation]
    /\ registry = NoRegistrations

\* one request ends: the worker drops its instance and answers its caller
Finish(p, result) ==
    /\ pc' = [pc EXCEPT ![p] = "idle"]
    /\ req' = [req EXCEPT ![p] = NoReq]
    /\ inst' = [inst EXCEPT ![p] = NoInst]
    /\ local' = [local EXCEPT ![p] = NoLocal]
    /\ response' = [proc |-> p, result |-> result]

(***************************************************************************)
(* OrderCreateView.form_valid: binds the owner's company to the new       *)
(* instance and enters WorkOrder.save.  A user without a company gets the *)
(* form back and nothing is touched.                                       *)
(***************************************************************************)
CreateBegin(p, u, prio) ==
    /\ pc[p] = "idle"
    /\ nextId <= MaxOrders
    /\ OwnedCompany(u) # NoCompany
    /\ inst' = [inst EXCEPT ![p] =
           [NewWorkOrder(nextId, prio) EXCEPT !.company = OwnedCompany(u)]]
    /\ req' = [req EXCEPT ![p] =
           [op |-> "create", user |-> u, pk |-> nextId, technician_id |-> NoTech]]
    /\ pc' = [pc EXCEPT ![p] = "save"]
    /\ response' = NoResponse
    /\ nextId' = nextId + 1
    /\ UNCHANGED <<orders, techActive, now, local, location, registry>>

(***************************************************************************)
(* WorkOrder.save, first half: the count query and the number built from  *)
(* it, taken only when the instance has no number.                         *)
(***************************************************************************)
SaveCount(p) ==
    /\ pc[p] = "save"
    /\ NeedsNumber(inst[p])
    /\ LET year == YearOf(now)
           count == CompanyYearCount(inst[p].company, year) + 1
       IN /\ local' = [local EXCEPT ![p] = [year |-> year, count |-> count]]
          /\ inst' = [inst EXCEPT ![p].order_number =
                         FormatOrderNumber(inst[p].company, year, count)]
    /\ pc' = [pc EXCEPT ![p] = "write"]
    /\ response' = NoResponse
    /\ UNCHANGED <<orders, techActive, now, nextId, req, location, registry>>

\* the row Model.save writes: an UPDATE keeps the instance's created_at, an
\* INSERT stamps it (auto_now_add)
RowToWrite(i) ==
    IF i.id \in DOMAIN orders THEN i ELSE [i EXCEPT !.created_at = now]

(***************************************************************************)
(* WorkOrder.save, second half: super().save().  UPDATE of the row with   *)
(* the instance's key, INSERT when no such row exists; either is refused  *)
(* by the unique constraint on order_number.                               *)
(***************************************************************************)
SaveWrite(p) ==
    /\ \/ pc[p] = "write"
       \/ pc[p] = "save" /\ ~NeedsNumber(inst[p])
    /\ IF UniqueViolation(inst[p])
       THEN /\ orders' = orders
            /\ Finish(p, "IntegrityError")
       ELSE /\ orders' = (inst[p].id :> RowToWrite(inst[p])) @@ orders
            /\ Finish(p, "saved")
    /\ UNCHANGED <<techActive, now, nextId, location, registry>>

\* assign_order that forgets order.assigned_at
AssignedWithoutTimestamp(order, t, time) ==
    [order EXCEPT !.technician = t, !.status = "ASSIGNED"]

\* assign_order's three assignments to the fetched order
Assigned(order, t, time) ==
    [order EXCEPT !.technician = t, !.status = "ASSIGNED", !.assigned_at = time]

\* the early returns with the technician looked up in every company
AssignRefusalAnyTechnician(u, pk, t) ==
    IF OwnedCompany(u) = NoCompany THEN "redirect order_list"
    ELSE IF pk \notin DOMAIN orders \/ orders[pk].company # OwnedCompany(u)
         THEN "Http404"
         ELSE "none"

\* the early returns without the two owner checks
AssignRefusalWithoutOwnerCheck(u, pk, t) ==
    IF pk \notin DOMAIN orders \/ orders[pk].company # OwnedCompany(u)
    THEN "Http404"
    ELSE IF TechCompany[t] # OwnedCompany(u) THEN "Http404" ELSE "none"

\* the early returns of assign_order: the redirect of a user who owns no
\* company, the 404 of get_object_or_404 for an order and then for a
\* technician that the owner's company does not have; "none" when the view
\* goes on to the assignment
AssignRefusal(u, pk, t) ==
    IF OwnedCompany(u) = NoCompany THEN "redirect order_list"
    ELSE IF pk \notin DOMAIN orders \/ orders[pk].company # OwnedCompany(u)
         THEN "Http404"
         ELSE IF TechCompany[t] # OwnedCompany(u) THEN "Http404" ELSE "none"

(***************************************************************************)
(* assign_order up to order.save(): the owner check, the two lookups      *)
(* restricted to the owner's company, the assignments.  The early returns *)
(* (no owned company, order or technician not found) touch nothing.       *)
(***************************************************************************)
AssignBegin(p, u, pk, t) ==
    /\ pc[p] = "idle"
    /\ AssignRefusal(u, pk, t) = "none"
    /\ inst' = [inst EXCEPT ![p] = Assigned(orders[pk], t, now)]
    /\ req' = [req EXCEPT ![p] =
           [op |-> "assign", user |-> u, pk |-> pk, technician_id |-> t]]
    /\ pc' = [pc EXCEPT ![p] = "save"]
    /\ response' = NoResponse
    /\ UNCHANGED <<orders, techActive, now, nextId, local, location, registry>>

\* assign_order ending in one of its early returns: the request is answered
\* and nothing is written
AssignRefuse(p, u, pk, t) ==
    /\ pc[p] = "idle"
    /\ AssignRefusal(u, pk, t) # "none"
    /\ response' =
          [proc |-> p, result |-> AssignRefusal(u, pk, t),
           request |-> [op |-> "assign", user |-> u, pk |-> pk,
                        technician_id |-> t]]
    /\ UNCHANGED <<orders, techActive, now, nextId, pc, req, inst, local,
                   location, registry>>

(***************************************************************************)
(* OrderUpdateView up to form.save(): the owner's form is bound to the    *)
(* fetched order and saved; the fields it edits are not part of the state.*)
(***************************************************************************)
UpdateBegin(p, u, pk) ==
    /\ pc[p] = "idle"
    /\ OwnedCompany(u) # NoCompany
    /\ pk \in DOMAIN orders
    /\ orders[pk].company = OwnedCompany(u)
    /\ inst' = [inst EXCEPT ![p] = orders[pk]]
    /\ req' = [req EXCEPT ![p] =
           [op |-> "update", user |-> u, pk |-> pk, technician_id |-> NoTech]]
    /\ pc' = [pc EXCEPT ![p] = "save"]
    /\ response' = NoResponse
    /\ UNCHANGED <<orders, techActive, now, nextId, local, location, registry>>

(***************************************************************************)
(* The admin site: WorkOrderAdmin deletes an order, TechnicianAdmin       *)
(* edits is_active.                                                         *)
(***************************************************************************)
AdminDelete(id) ==
    /\ id \in DOMAIN orders
    /\ orders' = [i \in DOMAIN orders \ {id} |-> orders[i]]
    /\ response' = NoResponse
    /\ UNCHANGED <<techActive, now, nextId, pc, req, inst, local,
                 location, registry>>

SetActive(t, b) ==
    /\ techActive[t] # b
    /\ techActive' = [techActive EXCEPT ![t] = b]
    /\ response' = NoResponse
    /\ UNCHANGED <<orders, now, nextId, pc, req, inst, local,
                 location, registry>>

(***************************************************************************)
(* The technician's own transitions.                                       *)
(***************************************************************************)
\* the next status, with the timestamp the transition sets
Advanced(order, time) ==
    CASE order.status = "ASSIGNED" -> [order EXCEPT !.status = "EN_ROUTE"]
      [] order.status = "EN_ROUTE" ->
            [order EXCEPT !.status = "ON_SITE", !.started_at = time]
      [] order.status = "ON_SITE" ->
            [order EXCEPT !.status = "COMPLETED", !.completed_at = time]
      [] OTHER -> order

TechAdvance(id) ==
    /\ id \in DOMAIN orders
    /\ orders[id].status \in ActiveStatuses
    /\ orders' = [orders EXCEPT ![id] = Advanced(orders[id], now)]
    /\ response' = NoResponse
    /\ UNCHANGED <<techActive, now, nextId, pc, req, inst, local,
                 location, registry>>

Cancel(id) ==
    /\ id \in DOMAIN orders
    /\ orders[id].status \notin {"COMPLETED", "CANCELLED"}
    /\ orders' = [orders EXCEPT ![id].status = "CANCELLED"]
    /\ response' = NoResponse
    /\ UNCHANGED <<techActive, now, nextId, pc, req, inst, local,
                 location, registry>>

\* a year passes
Tick ==
    /\ now < MaxTime * MinutesPerYear
    /\ now' = now + MinutesPerYear
    /\ response' = NoResponse
    /\ UNCHANGED <<orders, techActive, nextId, pc, req, inst, local,
                 location, registry>>

(***************************************************************************)
(* Spec: two workers serve order creations and assignments while the      *)
(* admin deletes orders and the years pass.                                *)
(***************************************************************************)
Next ==
    \/ \E p \in Procs, u \in Users : CreateBegin(p, u, "NORMAL")
    \/ \E p \in Procs : SaveCount(p)
    \/ \E p \in Procs : SaveWrite(p)
    \/ \E p \in Procs, u \in Users, pk \in 1..MaxOrders, t \in Techs :
          AssignBegin(p, u, pk, t)
    \/ \E id \in 1..MaxOrders : AdminDelete(id)
    \/ Tick

Spec == Init /\ [][Next]_vars

(***************************************************************************)
(* SpecSaves: every view that saves an order, served by one worker, while *)
(* the admin deletes orders and the years pass.                            *)
(***************************************************************************)
NextSaves ==
    \/ \E u \in Users : CreateBegin("w1", u, "NORMAL")
    \/ SaveCount("w1")
    \/ SaveWrite("w1")
    \/ \E u \in Users, pk \in 1..MaxOrders, t \in Techs :
          AssignBegin("w1", u, pk, t)
    \/ \E u \in Users, pk \in 1..MaxOrders : UpdateBegin("w1", u, pk)
    \/ \E id \in 1..MaxOrders : AdminDelete(id)
    \/ Tick

SpecSaves == Init /\ [][NextSaves]_vars

(***************************************************************************)
(* SpecSequential: one request at a time.  One worker serves creations,   *)
(* the admin deletes an order only between two requests, the years pass.  *)
(***************************************************************************)
\* the admin deletes an order while no request is being served
DeleteBetweenRequests(id) ==
    /\ \A p \in Procs : pc[p] = "idle"
    /\ AdminDelete(id)

NextSequential ==
    \/ \E u \in Users : CreateBegin("w1", u, "NORMAL")
    \/ SaveCount("w1")
    \/ SaveWrite("w1")
    \/ \E id \in 1..MaxOrders : DeleteBetweenRequests(id)
    \/ Tick

SpecSequential == Init /\ [][NextSequential]_vars

(***************************************************************************)
(* SpecAssign: two workers serve order creations and every assign_order   *)
(* request, those that end in an early return included.                    *)
(***************************************************************************)
NextAssign ==
    \/ \E p \in Procs, u \in Users : CreateBegin(p, u, "NORMAL")
    \/ \E p \in Procs : SaveCount(p)
    \/ \E p \in Procs : SaveWrite(p)
    \/ \E p \in Procs, u \in Users, pk \in 1..MaxOrders, t \in Techs :
          AssignBegin(p, u, pk, t)
    \/ \E p \in Procs, u \in Users, pk \in 1..MaxOrders, t \in Techs :
          AssignRefuse(p, u, pk, t)

SpecAssign == Init /\ [][NextAssign]_vars

(***************************************************************************)
(* SpecLifecycle: one worker serves creations and assignments while the   *)
(* technicians drive their orders and the admin edits is_active.          *)
(***************************************************************************)
NextLifecycle ==
    \/ \E u \in Users : CreateBegin("w1", u, "NORMAL")
    \/ SaveCount("w1")
    \/ SaveWrite("w1")
    \/ \E u \in Users, pk \in 1..MaxOrders, t \in Techs :
          AssignBegin("w1", u, pk, t)
    \/ \E t \in Techs, b \in BOOLEAN : SetActive(t, b)
    \/ \E id \in 1..MaxOrders : TechAdvance(id)
    \/ \E id \in 1..MaxOrders : Cancel(id)

SpecLifecycle == Init /\ [][NextLifecycle]_vars

(***************************************************************************)
(* The technician's status and workload.  A call answers its caller with  *)
(* the value it returns; the queries of one call are taken in one step,   *)
(* since no step that runs beside a call writes an order.                  *)
(***************************************************************************)
Min(a, b) == IF a < b THEN a ELSE b

\* the answer of a method called on technician t with arguments args
Returned(method, t, args, value) ==
    [proc |-> method,
     result |-> [self |-> t, args |-> args, value |-> value, raised |-> "none"]]

\* the call ends with an exception
Raised(method, t, args, exception) ==
    [proc |-> method,
     result |-> [self |-> t, args |-> args, value |-> "none", raised |-> exception]]

\* the EN_ROUTE and ON_SITE orders of every technician
MovingOrdersOfAll(t) ==
    {id \in DOMAIN orders : orders[id].status \in {"EN_ROUTE", "ON_SITE"}}

\* self.work_orders.filter(status__in=['EN_ROUTE', 'ON_SITE'])
MovingOrders(t) ==
    {id \in DOMAIN orders :
        orders[id].technician = t /\ orders[id].status \in {"EN_ROUTE", "ON_SITE"}}

\* .first() under Meta.ordering = ['-created_at']: a row of S created last;
\* among rows created at one instant the database picks
FirstRows(S) ==
    {id \in S : \A other \in S : orders[other].created_at <= orders[id].created_at}

\* get_current_status without the is_active test
CurrentStatusIgnoringActive(t) ==
    IF ActiveOrderCount(t) > 0
    THEN IF MovingOrders(t) # {}
         THEN {orders[id].status : id \in FirstRows(MovingOrders(t))}
         ELSE {"ASSIGNED"}
    ELSE {"AVAILABLE"}

\* the values Technician.get_current_status can return
CurrentStatusResults(t) ==
    IF ~techActive[t] THEN {"OFFLINE"}
    ELSE IF ActiveOrderCount(t) > 0
         THEN IF MovingOrders(t) # {}
              THEN {orders[id].status : id \in FirstRows(MovingOrders(t))}
              ELSE {"ASSIGNED"}
         ELSE {"AVAILABLE"}

GetCurrentStatus(t) ==
    /\ \E value \in CurrentStatusResults(t) :
          response' = Returned("get_current_status", t, <<>>, value)
    /\ UNCHANGED <<orders, techActive, now, nextId, pc, req, inst, local,
                 location, registry>>

\* the second count query of get_workload_score
UrgentOrderCount(t) ==
    Cardinality({id \in DOMAIN orders :
        /\ orders[id].technician = t
        /\ orders[id].status \in ActiveStatuses
        /\ orders[id].priority = "URGENT"})

\* the score without the clamp of the sum
WorkloadScoreUnclamped(active_orders, urgent_orders) ==
    Min(active_orders * 20, 100) + urgent_orders * 10

\* a score that drops the urgency penalty when the sum passes 100
WorkloadScorePenaltyDropped(active_orders, urgent_orders) ==
    LET base_score == Min(active_orders * 20, 100)
        urgency_penalty == urgent_orders * 10
    IN IF base_score + urgency_penalty > 100 THEN base_score
       ELSE base_score + urgency_penalty

\* the arithmetic of get_workload_score on its two counts
WorkloadScore(active_orders, urgent_orders) ==
    LET base_score == Min(active_orders * 20, 100)
        urgency_penalty == urgent_orders * 10
    IN Min(base_score + urgency_penalty, 100)

GetWorkloadScore(t) ==
    /\ response' = Returned("get_workload_score", t, <<>>,
                        WorkloadScore(ActiveOrderCount(t), UrgentOrderCount(t)))
    /\ UNCHANGED <<orders, techActive, now, nextId, pc, req, inst, local,
                 location, registry>>

(***************************************************************************)
(* The performance statistics.  Python floats are carried as exact        *)
(* fractions; a value rounded to one decimal is carried as its number of  *)
(* tenths; None is the empty sequence and a present value a sequence of   *)
(* one element.                                                            *)
(***************************************************************************)
Rat(n, d) == [num |-> n, den |-> d]
RatMul(x, y) == Rat(x.num * y.num, x.den * y.den)
RatAdd(x, y) == Rat(x.num * y.den + y.num * x.den, x.den * y.den)
RatMin(x, y) == IF x.num * y.den < y.num * x.den THEN x ELSE y

\* round(x, 1), in tenths: the nearest tenth, the even one of two nearest
Round1(x) ==
    LET n == 10 * x.num
        q == n \div x.den
        r == n % x.den
    IN IF 2 * r > x.den THEN q + 1
       ELSE IF 2 * r < x.den THEN q
       ELSE IF q % 2 = 0 THEN q ELSE q + 1

\* the names bound in the module and in the body of get_performance_stats
BoundNames ==
    {"models", "User", "timezone", "PhoneNumberField", "uuid",
     "Company", "Technician", "Customer", "ServiceType", "WorkOrder",
     "Expense"}
      \cup {"timedelta", "date", "Count", "Avg", "F"}

\* self.work_orders.filter(created_at__date__gte=start_date)
WindowOrders(t, days) ==
    LET start_date == DateOf(now) - days
    IN {id \in DOMAIN orders :
          orders[id].technician = t /\ DateOf(orders[id].created_at) >= start_date}

\* the rows the filter of Avg keeps
TimedOrders(S) ==
    {id \in S : /\ orders[id].status = "COMPLETED"
                /\ orders[id].started_at # NoTime
                /\ orders[id].completed_at # NoTime}

RECURSIVE SumSeconds(_)
\* the sum of F('completed_at') - F('started_at') over the rows S, in seconds
SumSeconds(S) ==
    IF S = {} THEN 0
    ELSE LET id == CHOOSE x \in S : TRUE
         IN 60 * (orders[id].completed_at - orders[id].started_at)
              + SumSeconds(S \ {id})

\* .aggregate(...) over the window
Aggregate(t, days) ==
    LET window == WindowOrders(t, days)
        timed == TimedOrders(window)
    IN [total_orders |-> Cardinality(window),
        completed_orders |->
            Cardinality({id \in window : orders[id].status = "COMPLETED"}),
        cancelled_orders |->
            Cardinality({id \in window : orders[id].status = "CANCELLED"}),
        avg_completion_time |->
            IF timed = {} THEN <<>>
            ELSE <<Rat(SumSeconds(timed), Cardinality(timed))>>]

\* completion_rate of get_performance_stats, before rounding
CompletionRate(stats) ==
    IF stats.total_orders > 0
    THEN RatMul(Rat(stats.completed_orders, stats.total_orders), Rat(100, 1))
    ELSE Rat(0, 1)

\* the score computed from the rate reported, rounded to one decimal
EfficiencyScoreOfRoundedRate(stats, completion_rate) ==
    IF stats.total_orders = 0 THEN 0
    ELSE Round1(RatAdd(RatMul(Rat(Round1(completion_rate), 10), Rat(7, 10)),
                       RatMul(RatMin(RatMul(Rat(stats.total_orders, 30), Rat(100, 1)),
                                     Rat(100, 1)),
                              Rat(3, 10))))

\* Technician._calculate_efficiency_score(stats, completion_rate)
CalculateEfficiencyScore(stats, completion_rate) ==
    IF stats.total_orders = 0 THEN 0
    ELSE LET completion_score == RatMul(completion_rate, Rat(7, 10))
             volume_score ==
                 RatMul(RatMin(RatMul(Rat(stats.total_orders, 30), Rat(100, 1)),
                               Rat(100, 1)),
                        Rat(3, 10))
         IN Round1(RatAdd(completion_score, volume_score))

\* `if stats['avg_completion_time']`: None and timedelta(0) are false
Truthy(avg) == avg # <<>> /\ avg[1].num # 0

\* the dictionary get_performance_stats builds from the aggregate
PerformanceStats(t, days) ==
    LET stats == Aggregate(t, days)
        completion_rate == CompletionRate(stats)
    IN [total_orders |-> stats.total_orders,
        completed_orders |-> stats.completed_orders,
        cancelled_orders |-> stats.cancelled_orders,
        completion_rate |-> Round1(completion_rate),
        avg_completion_hours |->
            IF Truthy(stats.avg_completion_time)
            THEN <<Round1(RatMul(stats.avg_completion_time[1], Rat(1, 3600)))>>
            ELSE <<>>,
        efficiency_score |-> CalculateEfficiencyScore(stats, completion_rate)]

\* Technician.get_performance_stats(days): the arguments of aggregate are
\* evaluated first, and the name Q among them has to be bound
GetPerformanceStats(t, days) ==
    /\ response' =
          IF "Q" \in BoundNames
          THEN Returned("get_performance_stats", t, <<days>>, PerformanceStats(t, days))
          ELSE Raised("get_performance_stats", t, <<days>>, "NameError")
    /\ UNCHANGED <<orders, techActive, now, nextId, pc, req, inst, local,
                 location, registry>>

\* _calculate_efficiency_score called as get_performance_stats calls it, on
\* an aggregate of total orders of which completed are COMPLETED
EfficiencyScoreCall(t, total, completed) ==
    /\ LET stats == [total_orders |-> total, completed_orders |-> completed,
                     cancelled_orders |-> 0, avg_completion_time |-> <<>>]
       IN response' = Returned("_calculate_efficiency_score", t,
                         <<stats, CompletionRate(stats)>>,
                         CalculateEfficiencyScore(stats, CompletionRate(stats)))
    /\ UNCHANGED <<orders, techActive, now, nextId, pc, req, inst, local,
                 location, registry>>

(***************************************************************************)
(* SpecLoad: the technician predicates on order books of up to MaxLoad    *)
(* orders.  The book was built by c1 in 2024 (orders 1..split, bound to   *)
(* t1) and by c2 in 2025 (the rest, bound to t2); each order has been     *)
(* driven to some status, every transition within the hour of creation;   *)
(* an urgent order was bound to its technician while still PENDING.       *)
(***************************************************************************)
StatusRank(st) ==
    CASE st = "PENDING" -> 0
      [] st = "ASSIGNED" -> 1
      [] st = "EN_ROUTE" -> 2
      [] st = "ON_SITE" -> 3
      [] st = "COMPLETED" -> 4
      [] st = "CANCELLED" -> 5

\* the priorities of a book: none urgent, all urgent, the odd or the even ones
UrgentPattern(pat, id) ==
    CASE pat = 0 -> FALSE
      [] pat = 1 -> TRUE
      [] pat = 2 -> id % 2 = 1
      [] OTHER -> id % 2 = 0

\* the row of order id of the book, in status st
BookRow(id, split, st, urgent) ==
    LET c == IF id <= split THEN "c1" ELSE "c2"
        t == IF id <= split THEN "t1" ELSE "t2"
        at == IF id <= split THEN 0 ELSE MinutesPerYear
        seq == IF id <= split THEN id ELSE id - split
    IN [id |-> id, company |-> c,
        order_number |-> FormatOrderNumber(c, YearOf(at), seq),
        status |-> st,
        technician |-> IF st = "PENDING" /\ ~urgent THEN NoTech ELSE t,
        priority |-> IF urgent THEN "URGENT" ELSE "NORMAL",
        created_at |-> at,
        assigned_at |-> IF st = "PENDING" THEN NoTime ELSE at,
        started_at |-> IF st \in {"ON_SITE", "COMPLETED"} THEN at ELSE NoTime,
        completed_at |-> IF st = "COMPLETED" THEN at ELSE NoTime]

InitLoad ==
    /\ \E k \in 0..MaxLoad, split \in 0..MaxLoad, pat \in 0..3 :
         \E book \in [1..k -> Statuses] :
            /\ split <= k
            /\ \A i \in 1..k, j \in 1..k :
                   i < j => StatusRank(book[i]) <= StatusRank(book[j])
            /\ orders = [id \in 1..k |->
                            BookRow(id, split, book[id], UrgentPattern(pat, id))]
            /\ nextId = k + 1
    /\ techActive = [t \in Techs |-> TRUE]
    /\ now = MinutesPerYear
    /\ pc = [p \in Procs |-> "idle"]
    /\ req = [p \in Procs |-> NoReq]
    /\ inst = [p \in Procs |-> NoInst]
    /\ local = [p \in Procs |-> NoLocal]
    /\ response = NoResponse
    /\ location = [t \in Techs |-> NoLocation]
    /\ registry = NoRegistrations

NextLoad ==
    \/ \E t \in Techs, b \in BOOLEAN : SetActive(t, b)
    \/ \E t \in Techs : GetCurrentStatus(t)
    \/ \E t \in Techs : GetWorkloadScore(t)

SpecLoad == InitLoad /\ [][NextLoad]_vars

(***************************************************************************)
(* SpecDispatch: one worker serves creations of either priority and       *)
(* assignments while orders are cancelled.                                  *)
(***************************************************************************)
NextDispatch ==
    \/ \E u \in Users, prio \in Priorities : CreateBegin("w1", u, prio)
    \/ SaveCount("w1")
    \/ SaveWrite("w1")
    \/ \E u \in Users, pk \in 1..MaxOrders, t \in Techs :
          AssignBegin("w1", u, pk, t)
    \/ \E id \in 1..MaxOrders : Cancel(id)

SpecDispatch == Init /\ [][NextDispatch]_vars

(***************************************************************************)
(* SpecStats: get_performance_stats on order books of up to MaxBook       *)
(* orders, late in the evening of the third day of 2024.  An order was    *)
(* created early on the first or the second day, at the start of the      *)
(* third day or two hours ago, for either technician; it is ASSIGNED,      *)
(* CANCELLED, or COMPLETED with a start stamp or none, within the hour,   *)
(* an hour or two hours after it was created.                              *)
(***************************************************************************)
StatsNow == (2 * 24 + 23) * 60
StatsDays == 0..2
StatsCreated == {60, (24 + 1) * 60, 2 * 24 * 60, (2 * 24 + 21) * 60}

\* what became of an order of the book: status, start and completion stamps
StatsFate(created_at) ==
    {[status |-> "ASSIGNED", started_at |-> NoTime, completed_at |-> NoTime],
     [status |-> "CANCELLED", started_at |-> NoTime, completed_at |-> NoTime],
     [status |-> "COMPLETED", started_at |-> NoTime, completed_at |-> created_at]}
      \cup {[status |-> "COMPLETED", started_at |-> created_at,
              completed_at |-> created_at + 60 * h] : h \in 0..2}

\* the rows an order of the book can be, before it gets its key and number
StatsRows ==
    UNION {{[technician |-> t, created_at |-> at, status |-> fate.status,
             started_at |-> fate.started_at, completed_at |-> fate.completed_at] :
               t \in Techs, fate \in StatsFate(at)} : at \in StatsCreated}

StatsRow(id, row) ==
    [id |-> id, company |-> TechCompany[row.technician],
     order_number |->
         FormatOrderNumber(TechCompany[row.technician], YearOf(row.created_at), id),
     status |-> row.status, technician |-> row.technician, priority |-> "NORMAL",
     created_at |-> row.created_at, assigned_at |-> row.created_at,
     started_at |-> row.started_at, completed_at |-> row.completed_at]

\* the rank of a row in a book: books are drawn in one order of their rows
StatsRank(row) ==
    (IF row.technician = "t1" THEN 0 ELSE 100000)
      + 10 * row.created_at + StatusRank(row.status)
      + (IF row.started_at = NoTime THEN 0 ELSE 1)
      + (IF row.completed_at = NoTime THEN 0
         ELSE (row.completed_at - row.created_at) \div 60)

InitStats ==
    /\ \E k \in 0..MaxBook :
         \E book \in [1..k -> StatsRows] :
            /\ \A i \in 1..k, j \in 1..k :
                   i < j => StatsRank(book[i]) <= StatsRank(book[j])
            /\ orders = [id \in 1..k |-> StatsRow(id, book[id])]
            /\ nextId = k + 1
    /\ techActive = [t \in Techs |-> TRUE]
    /\ now = StatsNow
    /\ pc = [p \in Procs |-> "idle"]
    /\ req = [p \in Procs |-> NoReq]
    /\ inst = [p \in Procs |-> NoInst]
    /\ local = [p \in Procs |-> NoLocal]
    /\ response = NoResponse
    /\ location = [t \in Techs |-> NoLocation]
    /\ registry = NoRegistrations

NextStats == \E t \in Techs, days \in StatsDays : GetPerformanceStats(t, days)

SpecStats == InitStats /\ [][NextStats]_vars

(***************************************************************************)
(* SpecEfficiency: _calculate_efficiency_score on aggregates of up to     *)
(* MaxTotal orders.                                                         *)
(***************************************************************************)
NextEfficiency ==
    \E total \in 0..MaxTotal :
        \E completed \in 0..total : EfficiencyScoreCall("t1", total, completed)

SpecEfficiency == Init /\ [][NextEfficiency]_vars

(***************************************************************************)
(* The technician's position.  A coordinate is a whole number of degrees, *)
(* a multiple of 90, for which the trigonometry is exact; None is the     *)
(* empty sequence and a present value a sequence of one element.  A       *)
(* distance is carried as the fraction of pi km it is.                     *)
(***************************************************************************)
Latitudes == {-90, 0, 90}
Longitudes == {0, 90}

\* R, the radius of the Earth in km
R == 6371

\* `not x` for a Decimal field: None and Decimal 0 are false
Falsy(x) == x = <<>> \/ x[1] = 0

\* cos of a multiple of 90 degrees
CosDeg(d) ==
    CASE d % 360 = 0 -> 1
      [] d % 360 = 180 -> -1
      [] OTHER -> 0

\* twice sin(d / 2) ** 2, which is 1 - cos(d)
TwiceSinHalfSquared(d) == 1 - CosDeg(d)

\* 2 * atan2(sqrt(a), sqrt(1 - a)) in quarter turns, given twice a
CentralAngle(twice_a) ==
    CASE twice_a = 0 -> 0
      [] twice_a = 1 -> 1
      [] twice_a = 2 -> 2

\* the haversine formula of get_distance_from on four coordinates
Haversine(lat1, lng1, lat2, lng2) ==
    LET dlat == lat2 - lat1
        dlng == lng2 - lng1
        twice_a == TwiceSinHalfSquared(dlat)
                     + CosDeg(lat1) * CosDeg(lat2) * TwiceSinHalfSquared(dlng)
        c == CentralAngle(twice_a)
    IN Rat(R * c, 2)

\* Technician.get_distance_from(lat, lng): what it returns or raises;
\* radians(None) is a TypeError
DistanceResult(t, lat, lng) ==
    IF Falsy(location[t].current_latitude) \/ Falsy(location[t].current_longitude)
    THEN [raised |-> "none", value |-> <<>>]
    ELSE IF lat = <<>> \/ lng = <<>>
         THEN [raised |-> "TypeError", value |-> <<>>]
         ELSE [raised |-> "none",
               value |-> <<Haversine(location[t].current_latitude[1],
                                     location[t].current_longitude[1],
                                     lat[1], lng[1])>>]

GetDistanceFrom(t, lat, lng) ==
    /\ response' =
          IF DistanceResult(t, lat, lng).raised = "none"
          THEN Returned("get_distance_from", t, <<lat, lng>>,
                        DistanceResult(t, lat, lng).value)
          ELSE Raised("get_distance_from", t, <<lat, lng>>,
                      DistanceResult(t, lat, lng).raised)
    /\ UNCHANGED <<orders, techActive, now, nextId, pc, req, inst, local,
                   location, registry>>

\* Technician.update_location(latitude, longitude)
UpdateLocation(t, latitude, longitude) ==
    /\ location' = [location EXCEPT ![t] =
           [current_latitude |-> <<latitude>>,
            current_longitude |-> <<longitude>>,
            last_location_update |-> now]]
    /\ response' = NoResponse
    /\ UNCHANGED <<orders, techActive, now, nextId, pc, req, inst, local, registry>>

\* is_online with a threshold that is still inside the window
IsOnlineInclusive(t) ==
    IF location[t].last_location_update = NoTime THEN FALSE
    ELSE LET threshold == now - 5
         IN location[t].last_location_update >= threshold

\* Technician.is_online
IsOnline(t) ==
    IF location[t].last_location_update = NoTime THEN FALSE
    ELSE LET threshold == now - 5
         IN location[t].last_location_update > threshold

GetIsOnline(t) ==
    /\ response' = Returned("is_online", t, <<>>, IsOnline(t))
    /\ UNCHANGED <<orders, techActive, now, nextId, pc, req, inst, local,
                   location, registry>>

\* a minute passes
MinutePasses ==
    /\ now < MaxMinutes
    /\ now' = now + 1
    /\ response' = NoResponse
    /\ UNCHANGED <<orders, techActive, nextId, pc, req, inst, local,
                   location, registry>>

(***************************************************************************)
(* SpecLocation: technicians report positions and are asked for their     *)
(* distance from a point and whether they are online, minute by minute.   *)
(***************************************************************************)
NextLocation ==
    \/ \E t \in Techs, latitude \in Latitudes, longitude \in Longitudes :
          UpdateLocation(t, latitude, longitude)
    \/ \E t \in Techs :
          \E lat \in {<<>>} \cup {<<x>> : x \in Latitudes},
             lng \in {<<>>} \cup {<<x>> : x \in Longitudes} :
             GetDistanceFrom(t, lat, lng)
    \/ \E t \in Techs : GetIsOnline(t)
    \/ MinutePasses

SpecLocation == Init /\ [][NextLocation]_vars

(***************************************************************************)
(* CompanyRegistrationView.post.  The two saves and the login run inside  *)
(* transaction.atomic(), itself inside try/except Exception: each         *)
(* statement is one step, the rows it writes stay with the worker until   *)
(* the block is left, and an exception anywhere in the block discards     *)
(* them before the handler reports it.                                     *)
(***************************************************************************)
\* the usernames and company names a visitor may post
NewUsers == {"u4", "u5"}
NewCompanies == {"c3"}

\* user_form.save() outside the transaction: the row is committed at once
SavedUserAutocommit(reg, p, username) ==
    [reg EXCEPT !.users = @ \cup {username}]

\* user_form.save() within transaction.atomic(): the row is written, not
\* committed
SavedUser(reg, p, username) ==
    [reg EXCEPT !.pending[p].users = @ \cup {username}]

\* company.owner = user; company.save()
SavedCompany(reg, p, name, owner) ==
    [reg EXCEPT !.pending[p].companies = @ \cup {[name |-> name, owner |-> owner]}]

\* transaction.atomic() left by an exception: the rows are discarded
RolledBack(reg, p) == [reg EXCEPT !.pending[p] = NoPending]

\* transaction.atomic() left normally: the rows are committed
Committed(reg, p) ==
    [reg EXCEPT !.users = @ \cup reg.pending[p].users,
                !.companies = @ \cup reg.pending[p].companies,
                !.pending[p] = NoPending]

\* is_valid() of the two forms: the posted fields are well formed and the
\* username is not taken
FormsValid(username, well_formed) ==
    well_formed /\ username \notin registry.users

\* post up to the try: invalid forms are rendered back with their errors
RegisterBegin(p, username, name, well_formed) ==
    /\ pc[p] = "idle"
    /\ IF FormsValid(username, well_formed)
       THEN /\ pc' = [pc EXCEPT ![p] = "user_form.save"]
            /\ req' = [req EXCEPT ![p] =
                   [op |-> "register", user |-> username, pk |-> 0,
                    technician_id |-> NoTech, company |-> name]]
            /\ response' = NoResponse
       ELSE /\ response' = [proc |-> p, result |-> "form errors"]
            /\ UNCHANGED <<pc, req>>
    /\ UNCHANGED <<orders, techActive, now, nextId, inst, local, location,
                   registry>>

\* messages.error(request, f'Errore durante la registrazione: {str(e)}') for
\* the exception of a statement
ErrorMessage(statement) ==
    CASE statement = "user_form.save" -> "error message: user_form.save"
      [] statement = "company.save" -> "error message: company.save"
      [] OTHER -> "error message: login"

\* the handler's except branch: the transaction is rolled back, the error is
\* put in a message and the form is rendered again
ReportError(p) ==
    /\ registry' = RolledBack(registry, p)
    /\ Finish(p, ErrorMessage(pc[p]))

\* user = user_form.save().  The INSERT waits while another transaction
\* holds the username, and is refused when the username was committed since
\* the form was validated.
RegisterUser(p) ==
    /\ pc[p] = "user_form.save"
    /\ \A q \in Procs \ {p} : req[p].user \notin registry.pending[q].users
    /\ IF req[p].user \in registry.users
       THEN ReportError(p)
       ELSE /\ registry' = SavedUser(registry, p, req[p].user)
            /\ pc' = [pc EXCEPT ![p] = "company.save"]
            /\ response' = NoResponse
            /\ UNCHANGED <<req, inst, local>>
    /\ UNCHANGED <<orders, techActive, now, nextId, location>>

\* company = company_form.save(commit=False); company.owner = user;
\* company.save(), which the database accepts or refuses
RegisterCompany(p, accepted) ==
    /\ pc[p] = "company.save"
    /\ IF accepted
       THEN /\ registry' = SavedCompany(registry, p, req[p].company, req[p].user)
            /\ pc' = [pc EXCEPT ![p] = "login"]
            /\ response' = NoResponse
            /\ UNCHANGED <<req, inst, local>>
       ELSE ReportError(p)
    /\ UNCHANGED <<orders, techActive, now, nextId, location>>

\* login(request, user), the success message and the return, which leaves
\* the atomic block and commits; a failure of the login or of the commit is
\* caught like any other
RegisterLogin(p, succeeded) ==
    /\ pc[p] = "login"
    /\ IF succeeded
       THEN /\ registry' = Committed(registry, p)
            /\ Finish(p, "redirect registration_success")
       ELSE ReportError(p)
    /\ UNCHANGED <<orders, techActive, now, nextId, location>>

(***************************************************************************)
(* SpecRegister: two workers serve registrations.                          *)
(***************************************************************************)
NextRegister ==
    \/ \E p \in Procs, username \in NewUsers, name \in NewCompanies,
          well_formed \in BOOLEAN :
          RegisterBegin(p, username, name, well_formed)
    \/ \E p \in Procs : RegisterUser(p)
    \/ \E p \in Procs, accepted \in BOOLEAN : RegisterCompany(p, accepted)
    \/ \E p \in Procs, succeeded \in BOOLEAN : RegisterLogin(p, succeeded)

SpecRegister == Init /\ [][NextRegister]_vars

(***************************************************************************)
(* Order numbering.                                                        *)
(***************************************************************************)
\* worker p is inside the save of an order creation and holds its number
HoldsNewNumber(p) == req[p].op = "create" /\ pc[p] = "write"

\* C1: two order creations of one company in one calendar year that run
\* concurrently never yield the same order number, however their count
\* queries and their writes interleave.
C1_ConcurrentCreationsDistinctNumbers ==
    \A p \in Procs, q \in Procs :
        (/\ p # q
         /\ HoldsNewNumber(p) /\ HoldsNewNumber(q)
         /\ inst[p].company = inst[q].company
         /\ local[p].year = local[q].year)
        => inst[p].order_number # inst[q].order_number

\* C2: in every reachable state no two persisted orders of one company have
\* the same order_number.
C2_NumberUniquePerCompany ==
    \A a \in DOMAIN orders, b \in DOMAIN orders :
        (a # b /\ orders[a].company = orders[b].company)
        => orders[a].order_number # orders[b].order_number

\* two orders of one company are persisted after a third instance was deleted
\* or refused
C2_Witness ==
    /\ \E a \in DOMAIN orders, b \in DOMAIN orders :
          a # b /\ orders[a].company = orders[b].company
    /\ Cardinality(DOMAIN orders) < nextId - 1
    /\ \A p \in Procs : pc[p] = "idle"

\* C3: an order's number is assigned exactly once.  Every persisted order has
\* a number; no step changes the number of a persisted order or of an
\* instance that has one; the instance of assign_order and of the update view
\* carries the number of the row it fetched, and a save writes the
\* instance's number.
C3_OrderNumberAssignedOnce ==
    [][/\ \A id \in DOMAIN orders' : orders'[id].order_number # <<>>
       /\ \A id \in DOMAIN orders :
             id \in DOMAIN orders' =>
                orders'[id].order_number = orders[id].order_number
       /\ \A p \in Procs :
             /\ (pc[p] # "idle" /\ pc'[p] # "idle" /\ inst[p].order_number # <<>>)
                   => inst'[p].order_number = inst[p].order_number
             /\ (pc[p] = "idle" /\ req'[p].op \in {"assign", "update"})
                   => inst'[p].order_number = orders[req'[p].pk].order_number
             /\ (pc[p] # "idle" /\ inst[p].id \in DOMAIN orders' \ DOMAIN orders)
                   => orders'[inst[p].id].order_number = inst[p].order_number
      ]_vars

\* an order saved by assign_order in a later year than the one it was created
\* in, when a fresh number for its company would be another one
C3_Witness ==
    \E id \in DOMAIN orders :
        /\ orders[id].status = "ASSIGNED"
        /\ YearOf(orders[id].assigned_at) > YearOf(orders[id].created_at)
        /\ response.result = "saved"
        /\ orders[id].order_number #
              FormatOrderNumber(orders[id].company, YearOf(now),
                  CompanyYearCount(orders[id].company, YearOf(now)) + 1)

\* C4: when the number generated for a new order equals the number of a
\* persisted order, the save answers with the uniqueness violation, the new
\* order is not persisted and no row is modified.
C4_CollisionSurfaces ==
    [][\A p \in Procs :
          (/\ HoldsNewNumber(p)
           /\ pc'[p] = "idle"
           /\ \E other \in DOMAIN orders :
                  orders[other].order_number = inst[p].order_number)
          => (/\ response' = [proc |-> p, result |-> "IntegrityError"]
              /\ orders' = orders)
      ]_vars

\* a creation was just refused for its number while the colliding row stays
C4_Witness ==
    /\ response.result = "IntegrityError"
    /\ orders # <<>>
    /\ Cardinality(DOMAIN orders) < nextId - 1

\* the characters of the claim's number, written out
ClaimYearText(y) ==
    CASE y = 2024 -> <<"2", "0", "2", "4">>
      [] y = 2025 -> <<"2", "0", "2", "5">>
      [] y = 2026 -> <<"2", "0", "2", "6">>
      [] OTHER -> <<>>

ClaimSeqText(k) ==
    <<"0", "0", "0">> \o <<(<<"1", "2", "3", "4", "5", "6", "7", "8", "9">>)[k]>>

\* the orders that count: all persisted ones but those of other companies
\* and those created in other years
ClaimExisting(c, y) ==
    Cardinality(DOMAIN orders)
      - Cardinality({id \in DOMAIN orders :
            orders[id].company # c \/ YearOf(orders[id].created_at) # y})

\* C5: the number generated at first save is the company's first three
\* letters in upper case, the current year and, on four digits, one more
\* than the number of persisted orders of that company created in that year;
\* "Acme", 2024 and 3 existing orders give ACM20240004.
C5_GeneratedNumberFormat ==
    [][/\ FormatOrderNumber("c1", 2024, 3 + 1) =
             <<"A", "C", "M", "2", "0", "2", "4", "0", "0", "0", "4">>
       /\ \A p \in Procs :
             (pc[p] = "save" /\ pc'[p] = "write")
             => inst'[p].order_number =
                   <<"A", "C", "M">> \o ClaimYearText(YearOf(now))
                     \o ClaimSeqText(1 + ClaimExisting(inst[p].company, YearOf(now)))
      ]_vars

\* a third order of Acme in 2025 holds ACM20250002 while an order of 2024 and
\* an order of the other company are persisted
C5_Witness ==
    \E p \in Procs :
        /\ HoldsNewNumber(p)
        /\ inst[p].company = "c1"
        /\ inst[p].order_number =
              <<"A", "C", "M", "2", "0", "2", "5", "0", "0", "0", "2">>
        /\ \E a \in DOMAIN orders, b \in DOMAIN orders :
              /\ orders[a].company = "c1" /\ orders[a].created_at = 0
              /\ orders[b].company = "c1" /\ orders[b].created_at = MinutesPerYear

(***************************************************************************)
(* Status lifecycle and assignment.                                        *)
(***************************************************************************)
\* a step along PENDING, ASSIGNED, EN_ROUTE, ON_SITE, COMPLETED, or to
\* CANCELLED from a status before COMPLETED
Forward(from, to) ==
    \/ from = to
    \/ to = "CANCELLED" /\ from \notin {"COMPLETED", "CANCELLED"}
    \/ /\ from # "CANCELLED" /\ to # "CANCELLED"
       /\ StatusRank(from) < StatusRank(to)

\* C6: the status of an order only moves forward along the lifecycle; a
\* COMPLETED or CANCELLED order never changes status, and assign_order never
\* takes an EN_ROUTE, ON_SITE, COMPLETED or CANCELLED order back to ASSIGNED.
C6_StatusOnlyMovesForward ==
    [][\A id \in DOMAIN orders :
          id \in DOMAIN orders' =>
             Forward(orders[id].status, orders'[id].status)
      ]_vars

\* C7: assign_order leaves the order with the given technician, status
\* ASSIGNED and assigned_at the time of the assignment, so every ASSIGNED
\* order has an assigned_at.
C7_AssignBindsTechnician ==
    /\ [][\A p \in Procs :
             /\ (pc[p] = "idle" /\ req'[p].op = "assign")
                   => /\ inst'[p].technician = req'[p].technician_id
                      /\ inst'[p].status = "ASSIGNED"
                      /\ inst'[p].assigned_at = now
             /\ (req[p].op = "assign"
                    /\ response' = [proc |-> p, result |-> "saved"])
                   => /\ req[p].pk \in DOMAIN orders'
                      /\ orders'[req[p].pk].technician = req[p].technician_id
                      /\ orders'[req[p].pk].status = "ASSIGNED"
                      /\ orders'[req[p].pk].assigned_at = inst[p].assigned_at
         ]_vars
    /\ [](\A id \in DOMAIN orders :
             orders[id].status = "ASSIGNED" => orders[id].assigned_at # NoTime)

\* the only order was created and bound to t1 in 2024, and the save of the
\* assignment has just written it in 2025
C7_Witness ==
    /\ nextId = 2 /\ now = MinutesPerYear
    /\ response.result = "saved"
    /\ 1 \in DOMAIN orders
    /\ orders[1].technician = "t1" /\ orders[1].status = "ASSIGNED"
    /\ orders[1].created_at = 0 /\ orders[1].assigned_at = 0

\* C8: at the moment assign_order binds an order to a technician,
\* can_accept_order() is true for that technician.
C8_AssignOnlyWhenEligible ==
    [][\A p \in Procs :
          (pc[p] = "idle" /\ req'[p].op = "assign")
          => CanAcceptOrder(req'[p].technician_id, DefaultMaxOrders)
      ]_vars

\* C9: a newly created order is persisted PENDING, without assigned_at,
\* started_at or completed_at.
C9_CreatedPending ==
    [][\A p \in Procs :
          (req[p].op = "create" /\ response' = [proc |-> p, result |-> "saved"])
          => /\ req[p].pk \notin DOMAIN orders
             /\ req[p].pk \in DOMAIN orders'
             /\ orders'[req[p].pk].status = "PENDING"
             /\ orders'[req[p].pk].assigned_at = NoTime
             /\ orders'[req[p].pk].started_at = NoTime
             /\ orders'[req[p].pk].completed_at = NoTime
      ]_vars

\* the save of a creation has just persisted the newest order
C9_Witness ==
    /\ response.result = "saved"
    /\ nextId - 1 \in DOMAIN orders
    /\ orders[nextId - 1].status = "PENDING"
    /\ orders[nextId - 1].created_at = now

(***************************************************************************)
(* The eligibility check.                                                  *)
(***************************************************************************)
\* the technician's orders that are neither waiting nor finished
ClaimActiveCount(t) ==
    Cardinality({id \in DOMAIN orders : orders[id].technician = t})
      - Cardinality({id \in DOMAIN orders :
            /\ orders[id].technician = t
            /\ orders[id].status \in {"PENDING", "COMPLETED", "CANCELLED"}})

\* C10: can_accept_order(max_orders) is false for an inactive technician
\* whatever their orders, and for an active one true exactly when fewer than
\* max_orders (by default 5) of their orders are ASSIGNED, EN_ROUTE or ON_SITE.
C10_CanAcceptOrder ==
    \A t \in Techs :
        /\ \A m \in 0..(MaxLoad + 1) :
              CanAcceptOrder(t, m) <=> (techActive[t] /\ ClaimActiveCount(t) < m)
        /\ CanAcceptOrder(t, DefaultMaxOrders)
              <=> (techActive[t] /\ ClaimActiveCount(t) < 5)

\* t1 is active with exactly five active orders and is refused by default,
\* t2 is inactive with a finished order only
C10_Witness ==
    /\ techActive["t1"] /\ ClaimActiveCount("t1") = 5
    /\ ~CanAcceptOrder("t1", DefaultMaxOrders)
    /\ CanAcceptOrder("t1", DefaultMaxOrders + 1)
    /\ ~techActive["t2"] /\ ClaimActiveCount("t2") = 0
    /\ \E id \in DOMAIN orders : orders[id].technician = "t2"

(***************************************************************************)
(* The status resolver.                                                    *)
(***************************************************************************)
\* get_current_status has just answered for technician t
StatusAnswered(t) ==
    response.proc = "get_current_status" /\ response.result.self = t

\* the statuses of the orders bound to t
ClaimStatusesOf(t) ==
    {orders[id].status : id \in {o \in DOMAIN orders : orders[o].technician = t}}

\* C11: get_current_status returns OFFLINE for every technician that is not
\* active, whatever orders, EN_ROUTE and ON_SITE ones included, are bound to
\* that technician.
C11_InactiveIsOffline ==
    \A t \in Techs :
        (StatusAnswered(t) /\ ~techActive[t]) => response.result.value = "OFFLINE"

\* an inactive technician with an EN_ROUTE and an ON_SITE order was answered
C11_Witness ==
    \E t \in Techs :
        /\ StatusAnswered(t) /\ ~techActive[t]
        /\ {"EN_ROUTE", "ON_SITE"} \subseteq ClaimStatusesOf(t)
        /\ response.result.value = "OFFLINE"

\* C12: for an active technician get_current_status returns AVAILABLE if and
\* only if none of the technician's orders is ASSIGNED, EN_ROUTE or ON_SITE;
\* PENDING, COMPLETED and CANCELLED orders do not count.
C12_AvailableIffNoActiveOrder ==
    \A t \in Techs :
        (StatusAnswered(t) /\ techActive[t])
        => (response.result.value = "AVAILABLE"
              <=> ClaimStatusesOf(t) \cap {"ASSIGNED", "EN_ROUTE", "ON_SITE"} = {})

\* an active technician whose orders are PENDING, COMPLETED and CANCELLED was
\* answered AVAILABLE
C12_Witness ==
    \E t \in Techs :
        /\ StatusAnswered(t) /\ techActive[t]
        /\ ClaimStatusesOf(t) = {"PENDING", "COMPLETED", "CANCELLED"}
        /\ response.result.value = "AVAILABLE"

\* C13: for an active technician with an ASSIGNED, EN_ROUTE or ON_SITE order,
\* get_current_status returns EN_ROUTE or ON_SITE, the status of one of the
\* technician's own orders, whenever the technician has an order in one of
\* these two statuses, and ASSIGNED exactly when all of the technician's
\* orders among ASSIGNED, EN_ROUTE and ON_SITE are ASSIGNED.
C13_MovingStatusElseAssigned ==
    \A t \in Techs :
        (/\ StatusAnswered(t) /\ techActive[t]
         /\ ClaimStatusesOf(t) \cap {"ASSIGNED", "EN_ROUTE", "ON_SITE"} # {})
        => /\ (ClaimStatusesOf(t) \cap {"EN_ROUTE", "ON_SITE"} # {})
                 => response.result.value
                       \in ClaimStatusesOf(t) \cap {"EN_ROUTE", "ON_SITE"}
           /\ response.result.value = "ASSIGNED"
                 <=> ClaimStatusesOf(t) \cap {"EN_ROUTE", "ON_SITE"} = {}

\* an active technician whose active orders are ASSIGNED and EN_ROUTE was
\* answered EN_ROUTE while the other technician has an ON_SITE order
C13_Witness ==
    /\ StatusAnswered("t1") /\ techActive["t1"]
    /\ ClaimStatusesOf("t1") \cap {"ASSIGNED", "EN_ROUTE", "ON_SITE"}
          = {"ASSIGNED", "EN_ROUTE"}
    /\ response.result.value = "EN_ROUTE"
    /\ "ON_SITE" \in ClaimStatusesOf("t2")

(***************************************************************************)
(* The workload score.                                                     *)
(***************************************************************************)
\* get_workload_score has just answered for technician t
ScoreAnswered(t) ==
    response.proc = "get_workload_score" /\ response.result.self = t

\* the technician's URGENT orders that are neither waiting nor finished
ClaimUrgentCount(t) ==
    Cardinality({id \in DOMAIN orders :
        /\ orders[id].technician = t
        /\ orders[id].priority # "NORMAL"
        /\ orders[id].status \notin {"PENDING", "COMPLETED", "CANCELLED"}})

\* min(min(active * 20, 100) + urgent * 10, 100), case by case
ClaimScore(active, urgent) ==
    IF active >= 5 THEN 100
    ELSE IF active * 20 + urgent * 10 >= 100 THEN 100
    ELSE active * 20 + urgent * 10

\* C14: get_workload_score equals min(min(active * 20, 100) + urgent * 10,
\* 100) for active the number of the technician's ASSIGNED, EN_ROUTE and
\* ON_SITE orders and urgent the number of those with priority URGENT; it
\* is an integer between 0 and 100.
C14_WorkloadScoreFormula ==
    \A t \in Techs :
        ScoreAnswered(t)
        => /\ response.result.value
                 = ClaimScore(ClaimActiveCount(t), ClaimUrgentCount(t))
           /\ response.result.value \in 0..100

\* four active orders, all urgent, of a technician who also holds an urgent
\* PENDING order: 80 + 40 is answered as 100
C14_Witness ==
    \E t \in Techs :
        /\ ScoreAnswered(t)
        /\ ClaimActiveCount(t) = 4 /\ ClaimUrgentCount(t) = 4
        /\ "PENDING" \in ClaimStatusesOf(t)
        /\ response.result.value = 100

\* what get_workload_score returns for t in the current state
ScoreNow(t) == WorkloadScore(ActiveOrderCount(t), UrgentOrderCount(t))

\* score(a, u) <= score(a2, u2) for all counts a <= a2 and u <= u2
ClaimScoreNonDecreasing ==
    \A a \in 0..(MaxLoad + 1), u \in 0..(MaxLoad + 1) :
        \A a2 \in a..(MaxLoad + 1), u2 \in u..(MaxLoad + 1) :
            WorkloadScore(a, u) <= WorkloadScore(a2, u2)

\* C15: the workload score is non-decreasing in both counts: score(a, u) <=
\* score(a2, u2) whenever a <= a2 and u <= u2; and the save of assign_order
\* never lowers the workload score of the technician the order is bound to.
C15_WorkloadScoreMonotone ==
    [][/\ ClaimScoreNonDecreasing
       /\ \A p \in Procs, t \in Techs :
             (/\ req[p].op = "assign" /\ req[p].technician_id = t
              /\ response' = [proc |-> p, result |-> "saved"])
             => ScoreNow(t)' >= ScoreNow(t)
      ]_vars

\* assign_order has just bound the last PENDING order to t1, who now holds
\* three ASSIGNED orders, one of them URGENT: score 70
C15_Witness ==
    /\ response.result = "saved"
    /\ Cardinality(DOMAIN orders) = 3
    /\ \A id \in DOMAIN orders :
          orders[id].technician = "t1" /\ orders[id].status = "ASSIGNED"
    /\ UrgentOrderCount("t1") = 1
    /\ ScoreNow("t1") = 70

(***************************************************************************)
(* The performance statistics.                                             *)
(***************************************************************************)
\* get_performance_stats(days) has just ended for technician t
StatsAnswered(t, days) ==
    /\ response.proc = "get_performance_stats"
    /\ response.result.self = t
    /\ response.result.args = <<days>>

\* the orders of t created on one of the last days calendar days or today
ClaimOrdersOfLastDays(t, days) ==
    {id \in DOMAIN orders :
        /\ orders[id].technician = t
        /\ \E d \in 0..days : DateOf(orders[id].created_at) = DateOf(now) - d}

\* C16: get_performance_stats on a technician with no orders in the window
\* returns, without raising, zero for total_orders, completed_orders,
\* cancelled_orders, completion_rate and efficiency_score, and no
\* avg_completion_hours.
C16_EmptyWindowZeroStats ==
    \A t \in Techs, days \in StatsDays :
        (StatsAnswered(t, days) /\ ClaimOrdersOfLastDays(t, days) = {})
        => /\ response.result.raised = "none"
           /\ response.result.value =
                 [total_orders |-> 0, completed_orders |-> 0,
                  cancelled_orders |-> 0, completion_rate |-> 0,
                  avg_completion_hours |-> <<>>, efficiency_score |-> 0]

\* x is the fraction n / d given to one decimal, in tenths
ClaimNearestTenth(x, n, d) ==
    /\ 2 * (10 * n - x * d) <= d
    /\ 2 * (x * d - 10 * n) <= d

\* C17: get_performance_stats reports completion_rate = completed / total *
\* 100 to one decimal, total the number of the technician's orders in the
\* window and completed the number of those that are COMPLETED, and 0 when
\* total is 0; the rate lies between 0 and 100 and completed + cancelled <=
\* total.
C17_CompletionRate ==
    \A t \in Techs, days \in StatsDays :
        StatsAnswered(t, days)
        => /\ response.result.raised = "none"
           /\ LET report == response.result.value
                  total == Cardinality(ClaimOrdersOfLastDays(t, days))
                  completed ==
                      Cardinality({id \in ClaimOrdersOfLastDays(t, days) :
                                      orders[id].status = "COMPLETED"})
              IN /\ report.total_orders = total
                 /\ report.completed_orders = completed
                 /\ IF total = 0 THEN report.completion_rate = 0
                    ELSE ClaimNearestTenth(report.completion_rate,
                                           100 * completed, total)
                 /\ report.completion_rate \in 0..1000
                 /\ report.completed_orders + report.cancelled_orders
                       <= report.total_orders

\* _calculate_efficiency_score has just answered
EfficiencyAnswered == response.proc = "_calculate_efficiency_score"

C19_WindowToTheInstant ==
    \A t \in Techs, days \in StatsDays :
        /\ WindowOrders(t, days) =
              {id \in DOMAIN orders :
                  /\ orders[id].technician = t
                  /\ now - 24 * 60 * days <= orders[id].created_at
                  /\ orders[id].created_at <= now}
        /\ Aggregate(t, days).total_orders =
              Cardinality({id \in DOMAIN orders :
                  /\ orders[id].technician = t
                  /\ now - orders[id].created_at \in 0..(24 * 60 * days)})

\* the COMPLETED orders of the window with a start and a completion stamp
ClaimTimedOrders(t, days) ==
    {id \in ClaimOrdersOfLastDays(t, days) :
        /\ orders[id].status = "COMPLETED"
        /\ orders[id].started_at >= 0 /\ orders[id].completed_at >= 0}

RECURSIVE ClaimMinutes(_)
\* the minutes from start to completion, summed over the orders S
ClaimMinutes(S) ==
    IF S = {} THEN 0
    ELSE LET id == CHOOSE x \in S : TRUE
         IN (orders[id].completed_at - orders[id].started_at) + ClaimMinutes(S \ {id})

\* C20: avg_completion_hours is None if and only if the window holds no
\* COMPLETED order with both started_at and completed_at; otherwise, also
\* when an order was completed at the instant it was started, it is the mean
\* of completed_at - started_at over those orders in hours, to one decimal.
C20_AvgCompletionHours ==
    \A t \in Techs, days \in StatsDays :
        LET timed == ClaimTimedOrders(t, days)
            avg == PerformanceStats(t, days).avg_completion_hours
        IN /\ avg = <<>> <=> timed = {}
           /\ timed # {} =>
                 /\ Len(avg) = 1
                 /\ ClaimNearestTenth(avg[1], ClaimMinutes(timed),
                                      60 * Cardinality(timed))

(***************************************************************************)
(* Position and online flag.                                               *)
(***************************************************************************)
\* get_distance_from has just ended for technician t
DistanceAnswered(t) ==
    response.proc = "get_distance_from" /\ response.result.self = t

\* is_online has just been read for technician t
OnlineAnswered(t) ==
    response.proc = "is_online" /\ response.result.self = t

\* C21: missing coordinates never raise: get_distance_from returns None
\* when the stored latitude or longitude is missing or when the lat or lng
\* argument is missing, and is_online is false when last_location_update is
\* missing.
C21_MissingCoordinatesNeverRaise ==
    \A t \in Techs :
        /\ DistanceAnswered(t)
              => /\ response.result.raised = "none"
                 /\ (\/ location[t].current_latitude = <<>>
                     \/ location[t].current_longitude = <<>>
                     \/ response.result.args[1] = <<>>
                     \/ response.result.args[2] = <<>>)
                       => response.result.value = <<>>
        /\ (OnlineAnswered(t) /\ location[t].last_location_update = NoTime)
              => /\ response.result.raised = "none"
                 /\ response.result.value = FALSE

\* C22: get_distance_from returns a number whenever the technician has a
\* stored latitude and a stored longitude, a latitude of 0 or a longitude of
\* 0 included, and 0 when the target point is the stored position.
C22_DistanceDefinedForStoredPosition ==
    \A t \in Techs :
        (/\ DistanceAnswered(t)
         /\ location[t].current_latitude # <<>>
         /\ location[t].current_longitude # <<>>
         /\ response.result.args[1] # <<>> /\ response.result.args[2] # <<>>)
        => /\ response.result.raised = "none"
           /\ Len(response.result.value) = 1
           /\ (/\ response.result.args[1] = location[t].current_latitude
               /\ response.result.args[2] = location[t].current_longitude)
                 => response.result.value[1].num = 0

\* C23: is_online is true exactly when the last location update is less
\* than 5 minutes old: true right after update_location, false once 5
\* minutes have passed without an update, false for a technician who never
\* reported a position.
C23_OnlineWithinFiveMinutes ==
    /\ [](\A t \in Techs :
             OnlineAnswered(t)
             => (response.result.value
                   <=> (/\ location[t].last_location_update # NoTime
                        /\ \E m \in 0..4 :
                               location[t].last_location_update + m = now)))
    /\ [][\A t \in Techs :
             (location'[t].last_location_update # location[t].last_location_update)
             => IsOnline(t)'
         ]_vars

\* a technician who reported a position exactly 5 minutes ago is read as
\* offline, the other one, who reported 4 minutes ago, is online
C23_Witness ==
    /\ OnlineAnswered("t1")
    /\ location["t1"].last_location_update = now - 5
    /\ response.result.value = FALSE
    /\ location["t2"].last_location_update = now - 4
    /\ IsOnline("t2")

(***************************************************************************)
(* Numbering across deletions and across tenants.                          *)
(***************************************************************************)
\* worker p leaves the count query of an order creation with a fresh number
NumbersNewOrder(p) ==
    pc[p] = "save" /\ pc'[p] = "write" /\ req[p].op = "create"

\* C24: with one worker and the orders of a company all created in the
\* current year, whatever creations and deletions came before, the number
\* generated for a new order of the company differs from the number of every
\* persisted order of the company, and its save is not refused.
C24_SequentialCreationNeverCollides ==
    [][\A p \in Procs :
          /\ (/\ NumbersNewOrder(p)
              /\ \A id \in DOMAIN orders :
                    orders[id].company = inst[p].company
                    => YearOf(orders[id].created_at) = YearOf(now))
             => \A id \in DOMAIN orders :
                   orders[id].company = inst[p].company
                   => orders[id].order_number # inst'[p].order_number
          /\ (/\ HoldsNewNumber(p) /\ pc'[p] = "idle"
              /\ \A id \in DOMAIN orders :
                    /\ orders[id].company = inst[p].company
                    /\ YearOf(orders[id].created_at) = local[p].year)
             => response'.result = "saved"
      ]_vars

\* C25: the number generated for a new order of one company is held by no
\* persisted order of another company, and the save of a new order is not
\* refused while every persisted order that has its number belongs to
\* another company.
C25_NumberingIndependentBetweenTenants ==
    [][\A p \in Procs :
          /\ NumbersNewOrder(p)
             => \A id \in DOMAIN orders :
                   orders[id].company # inst[p].company
                   => orders[id].order_number # inst'[p].order_number
          /\ (/\ HoldsNewNumber(p) /\ pc'[p] = "idle"
              /\ \A id \in DOMAIN orders :
                    orders[id].order_number = inst[p].order_number
                    => orders[id].company # inst[p].company)
             => response'.result = "saved"
      ]_vars

(***************************************************************************)
(* Tenant isolation of assign_order.                                       *)
(***************************************************************************)
\* the step just taken answered an assign_order request with an early return
AssignRefused(r) ==
    /\ r.proc \in Procs
    /\ r.result \in {"Http404", "redirect order_list"}

\* the request names an order or a technician of a company the user does
\* not own
ClaimNamesForeign(r) ==
    \/ r.pk \in DOMAIN orders /\ orders[r.pk].company # OwnedCompany(r.user)
    \/ TechCompany[r.technician_id] # OwnedCompany(r.user)

\* C26: every order that has a technician has a technician of its own
\* company; an order gets or changes its technician only in the save of an
\* assign_order request made by the owner of the order's company; an
\* assign_order request that names an order or a technician of another
\* company is answered without any change to the orders or to a worker.
C26_AssignmentWithinTenant ==
    /\ [](\A id \in DOMAIN orders :
            orders[id].technician # NoTech
            => TechCompany[orders[id].technician] = orders[id].company)
    /\ [][/\ \A id \in DOMAIN orders' :
               (/\ orders'[id].technician # NoTech
                /\ \/ id \notin DOMAIN orders
                   \/ orders[id].technician # orders'[id].technician)
               => \E p \in Procs :
                     /\ pc[p] # "idle" /\ pc'[p] = "idle"
                     /\ req[p].op = "assign" /\ req[p].pk = id
                     /\ req[p].technician_id = orders'[id].technician
                     /\ OwnedCompany(req[p].user) = orders'[id].company
          /\ \A p \in Procs :
               (pc[p] = "idle" /\ req'[p].op = "assign")
               => ~ClaimNamesForeign(req'[p])
          /\ (AssignRefused(response') /\ ClaimNamesForeign(response'.request))
               => (orders' = orders /\ pc' = pc /\ inst' = inst)
         ]_vars

\* the owner of Acme, whose order 1 has Acme's technician, just named the
\* other company's technician for it and was refused
C26_Witness ==
    /\ AssignRefused(response)
    /\ response.result = "Http404"
    /\ response.request.user = "u1"
    /\ response.request.pk = 1
    /\ response.request.technician_id = "t2"
    /\ 1 \in DOMAIN orders
    /\ orders[1].company = "c1"
    /\ orders[1].technician = "t1"

\* C27: assign_order called by a user who owns no company is answered with
\* the redirect to the order list, and technician, status, assigned_at and
\* order_number of every order are what they were before the call; no
\* assignment is ever under way for such a user.
C27_NoCompanyNoAssignment ==
    /\ [](\A p \in Procs :
            req[p].op = "assign" => OwnedCompany(req[p].user) # NoCompany)
    /\ [][(/\ response'.proc \in Procs
           /\ response'.result \in {"Http404", "redirect order_list"}
           /\ OwnedCompany(response'.request.user) = NoCompany)
          => /\ response'.result = "redirect order_list"
             /\ DOMAIN orders' = DOMAIN orders
             /\ \A id \in DOMAIN orders :
                   /\ orders'[id].technician = orders[id].technician
                   /\ orders'[id].status = orders[id].status
                   /\ orders'[id].assigned_at = orders[id].assigned_at
                   /\ orders'[id].order_number = orders[id].order_number
         ]_vars

\* the user without a company was just turned away from an order that is
\* persisted unassigned, while another order is assigned
C27_Witness ==
    /\ AssignRefused(response)
    /\ response.result = "redirect order_list"
    /\ response.request.user = "u3"
    /\ response.request.pk \in DOMAIN orders
    /\ orders[response.request.pk].technician = NoTech
    /\ \E id \in DOMAIN orders : orders[id].status = "ASSIGNED"

(***************************************************************************)
(* Determinism of the technician's status.                                 *)
(***************************************************************************)
\* C28: for an active technician with EN_ROUTE or ON_SITE orders,
\* get_current_status returns the status of the one created last, and two
\* calls with no change of the stored state between them return the same
\* status.
C28_CurrentStatusDeterministic ==
    [][\A t \in Techs :
          /\ (StatusAnswered(t)' /\ techActive[t] /\ MovingOrders(t) # {})
             => \E id \in MovingOrders(t) :
                   /\ response'.result.value = orders[id].status
                   /\ \A other \in MovingOrders(t) :
                         orders[other].created_at <= orders[id].created_at
          /\ (/\ StatusAnswered(t) /\ StatusAnswered(t)'
              /\ orders' = orders /\ techActive' = techActive)
             => response'.result.value = response.result.value
      ]_vars

(***************************************************************************)
(* Atomicity of the registration.                                          *)
(***************************************************************************)
\* the message of a registration that failed
ClaimErrorMessages ==
    {"error message: user_form.save", "error message: company.save",
     "error message: login"}

\* C29: every registered user that is persisted owns a persisted company and
\* every persisted company has a persisted owner; a registration ends either
\* with the redirect to the success page, the user and the user's company
\* persisted, or with an error message and the persisted users and
\* companies as they were; when company.save() fails after the user was
\* saved, the user is not persisted and the failure is answered with the
\* error message.
C29_RegistrationAtomic ==
    /\ [](/\ \A u \in registry.users \ Users :
               \E c \in registry.companies : c.owner = u
          /\ \A c \in registry.companies : c.owner \in registry.users)
    /\ [][\A p \in Procs :
            /\ (req[p].op = "register" /\ pc'[p] = "idle")
               => /\ registry'.pending[p] = NoPending
                  /\ response'.proc = p
                  /\ \/ /\ response'.result = "redirect registration_success"
                        /\ req[p].user \in registry'.users
                        /\ [name |-> req[p].company, owner |-> req[p].user]
                              \in registry'.companies
                     \/ /\ response'.result \in ClaimErrorMessages
                        /\ registry'.users = registry.users
                        /\ registry'.companies = registry.companies
            /\ (/\ pc[p] = "company.save" /\ pc'[p] = "idle"
                /\ req[p].user \in registry.pending[p].users)
               => /\ req[p].user \notin registry'.users
                  /\ response'.result = "error message: company.save"
         ]_vars

\* the registration of u4 just failed at company.save() and left no user,
\* while the registration of u5 went through
C29_Witness ==
    /\ response = [proc |-> "w1", result |-> "error message: company.save"]
    /\ "u4" \notin registry.users
    /\ registry.pending["w1"] = NoPending
    /\ "u5" \in registry.users
    /\ [name |-> "c3", owner |-> "u5"] \in registry.companies

====
